---- MODULE Spec2Model ----
(***************************************************************************)
(* Lagged coherence (neurodsp/rhythm/lc.py).                               *)
(*                                                                         *)
(* Three state machines over one set of variables:                         *)
(*   Spec      lagged_coherence, the sweep over a frequency range;         *)
(*   SpecEst   _lagged_coherence_1freq, step by step, for one frequency;   *)
(*   SpecCoef  the last step of the estimator (lc.py lines 92-98) applied  *)
(*             to arbitrary sequences of per-chunk Fourier coefficients.   *)
(*                                                                         *)
(* Arithmetic.  Frequencies and the sampling rate are integers (Hz),       *)
(* n_cycles is a fraction <<p, q>>, samples are integers.  Complex numbers *)
(* are pairs <<re, im>> of integers.  The Hann taper is kept multiplied by *)
(* 4 (so its weights are integers), which multiplies every Fourier         *)
(* coefficient by 4 and leaves the lagged coherence, a ratio, unchanged.   *)
(* The discrete Fourier transform is computed exactly for the window       *)
(* lengths whose twiddle factors and taper weights are rational (1, 2 and  *)
(* 4); for any other window length the coefficient step is not taken when  *)
(* there is a chunk to transform.  A float result is a record: kind "nan", *)
(* "inf", or "num" with v the value in units of 1/Scale, rounded down.     *)
(***************************************************************************)
EXTENDS Integers, Sequences, FiniteSets, TLC

VARIABLES
  pc,               \* position in the function being run
  sig, fs, n_cycles,                              \* arguments of both functions
  f_range, f_step, return_spectrum, verbose,      \* arguments of lagged_coherence
  freqs, lc, ind, notices, ret,                   \* locals / output of lagged_coherence
  freq,                                           \* argument of _lagged_coherence_1freq
  n_samps, chunks, n_chunks, fft_freqs_idx, fft_coefs, lcs   \* its locals and result

argVars == <<sig, fs, n_cycles>>
sweepVars == <<f_range, f_step, return_spectrum, verbose, freqs, lc, ind, notices, ret>>
estVars == <<freq, n_samps, chunks, n_chunks, fft_freqs_idx, fft_coefs, lcs>>
vars == <<pc, argVars, sweepVars, estVars>>

---------------------------------------------------------------------------
(* Bounds of the model *)

MaxLen == 8         \* longest signal given to the estimator
MaxSweepLen == 5    \* longest signal given to the sweep
MaxFreq == 4        \* highest frequency argument, Hz
MaxStep == 2        \* largest f_step, Hz
MaxChunks == 3      \* longest coefficient sequence of SpecCoef
CoefMax == 1        \* largest |re|, |im| of a coefficient of SpecCoef
Scale == 100        \* resolution of a float result: units of 1/Scale

Samples == {0, 1}
Rates == {2, 4, 8}                              \* fs of the estimator runs
Cycles == {<<1, 2>>, <<1, 1>>, <<3, 2>>}        \* n_cycles: 1/2, 1, 3/2
SweepRates == {4}                               \* fs of the sweeps
SweepCycles == {<<1, 2>>, <<1, 1>>}             \* n_cycles of the sweeps

SeqsUpTo(S, n) == UNION {[1..k -> S] : k \in 0..n}

---------------------------------------------------------------------------
(* Numbers *)

Abs(x) == IF x < 0 THEN -x ELSE x

Min(a, b) == IF a <= b THEN a ELSE b

\* np.ceil(a / b) for b > 0
CeilDiv(a, b) == -((-a) \div b)

\* np.floor(a / b) for b > 0
FloorDiv(a, b) == a \div b

\* float results
NaN == [kind |-> "nan", v |-> 0]
Inf == [kind |-> "inf", v |-> 0]
Num(x) == [kind |-> "num", v |-> x]
Unset == [kind |-> "unset", v |-> 0]

\* np.isnan
IsNaN(x) == x.kind = "nan"

\* complex numbers <<re, im>>
CZero == <<0, 0>>
CAdd(a, b) == <<a[1] + b[1], a[2] + b[2]>>
CMul(a, b) == <<a[1] * b[1] - a[2] * b[2], a[1] * b[2] + a[2] * b[1]>>
CConj(a) == <<a[1], -a[2]>>
CScale(r, a) == <<r * a[1], r * a[2]>>
\* np.abs(a)**2
CAbs2(a) == a[1] * a[1] + a[2] * a[2]

---------------------------------------------------------------------------
(* _nonoverlapping_chunks (lc.py 101-107) *)

\* sig[:m]
PySlice(s, m) == SubSeq(s, 1, Min(m, Len(s)))

\* n_chunks = int(np.floor(len(sig) / float(n_samples)))
NChunks(s, n_samples) == FloorDiv(Len(s), n_samples)

\* np.reshape(flat, (rows, cols)): raises ValueError unless the sizes agree
ReshapeOk(flat, rows, cols) == Len(flat) = rows * cols
\* (a slip: the row offset dropped, every row filled from the start of flat)
ReshapeFlat(flat, rows, cols) == [k \in 1..rows |-> [j \in 1..cols |-> flat[k]]]
Reshape(flat, rows, cols) ==
  [k \in 1..rows |-> [j \in 1..cols |-> flat[(k - 1) * cols + j]]]

NonoverlappingChunks(s, n_samples) ==
  LET n == NChunks(s, n_samples)
      flat == PySlice(s, n * n_samples)
  IN  IF ReshapeOk(flat, n, n_samples)
      THEN [raised |-> FALSE, chunks |-> Reshape(flat, n, n_samples)]
      ELSE [raised |-> TRUE, chunks |-> <<>>]

---------------------------------------------------------------------------
(* _lagged_coherence_1freq (lc.py 72-98) *)

\* n_samps = int(np.ceil(n_cycles * fs / freq))
\* (a slip: floor plus one in place of the ceiling)
NSampsFloor(f, rate, cyc) == FloorDiv(cyc[1] * rate, cyc[2] * f) + 1
NSamps(f, rate, cyc) == CeilDiv(cyc[1] * rate, cyc[2] * f)

\* 4 * hann(n), symmetric: 4 * (0.5 - 0.5 cos(2 pi m / (n - 1))), hann(1) = [1]
Hann4(n) ==
  CASE n = 1 -> <<4>>
    [] n = 2 -> <<0, 0>>
    [] n = 4 -> <<0, 3, 3, 0>>

\* window lengths whose taper and twiddle factors are rational
Representable(n) == n \in {1, 2, 4}

\* np.fft.fftfreq(n, 1/fs)[i] * n / fs, i 0-based: 0, 1, ..., then the negatives
FftFreqK(n, i) == IF i <= (n - 1) \div 2 THEN i ELSE i - n

\* |fft_freqs[i] - freq| * n
BinDist(n, rate, f, i) == Abs(FftFreqK(n, i) * rate - f * n)

\* np.argmin over indices 0..n-1: the scan replaces the best index only by a
\* strictly smaller distance, so the first minimum is kept
\* (a slip: <= in place of <, which keeps the last minimum)
RECURSIVE ArgMinScanLast(_, _, _, _, _)
ArgMinScanLast(n, rate, f, i, best) ==
  IF i = n THEN best
  ELSE ArgMinScanLast(n, rate, f, i + 1,
         IF BinDist(n, rate, f, i) <= BinDist(n, rate, f, best) THEN i ELSE best)

RECURSIVE ArgMinScan(_, _, _, _, _)
ArgMinScan(n, rate, f, i, best) ==
  IF i = n THEN best
  ELSE ArgMinScan(n, rate, f, i + 1,
         IF BinDist(n, rate, f, i) < BinDist(n, rate, f, best) THEN i ELSE best)

\* fft_freqs_idx = np.argmin(np.abs(fft_freqs - freq))
FftFreqsIdxLast(n, rate, f) == ArgMinScanLast(n, rate, f, 1, 0)
FftFreqsIdx(n, rate, f) == ArgMinScan(n, rate, f, 1, 0)

\* exp(-2 pi i q / 4), q in 0..3
Unit4(q) == CASE q = 0 -> <<1, 0>> [] q = 1 -> <<0, -1>>
              [] q = 2 -> <<-1, 0>> [] q = 3 -> <<0, 1>>

\* exp(-2 pi i j / n) for n in {1, 2, 4}
Twiddle(n, j) == Unit4(((j % n) * (4 \div n)) % 4)

\* chunk * hann_window
Taper(chunk, n) == [m \in 1..n |-> chunk[m] * Hann4(n)[m]]

\* np.fft.fft(x)[k], k 0-based: sum over m of x[m] exp(-2 pi i m k / n)
RECURSIVE FftSum(_, _, _, _)
FftSum(x, n, k, m) ==
  IF m = n THEN CZero
  ELSE CAdd(CScale(x[m + 1], Twiddle(n, m * k)), FftSum(x, n, k, m + 1))

Fft(x, n) == [k \in 0..(n - 1) |-> FftSum(x, n, k, 0)]

\* the loop of lines 87-90: one coefficient per chunk, all at bin idx
FftCoefs(chs, n, idx) ==
  [c \in 1..Len(chs) |-> Fft(Taper(chs[c], n), n)[idx]]

\* lcs_num: sum of coefs[i] * conj(coefs[i+1]) over range(n_chunks - 1)
RECURSIVE LcsNum(_, _)
LcsNum(coefs, i) ==
  IF i >= Len(coefs) THEN CZero
  ELSE CAdd(CMul(coefs[i], CConj(coefs[i + 1])), LcsNum(coefs, i + 1))

\* np.sum(np.abs(coefs[lo..hi])**2), 1-based inclusive, 0 when empty
RECURSIVE Energy(_, _, _)
Energy(coefs, lo, hi) ==
  IF lo > hi THEN 0 ELSE CAbs2(coefs[lo]) + Energy(coefs, lo + 1, hi)

\* lcs_denom ** 2: the energy of coefs[:-1] times the energy of coefs[1:]
\* (a slip: the same slice in both sums)
LcsDenom2Same(coefs) ==
  Energy(coefs, 1, Len(coefs) - 1) * Energy(coefs, 1, Len(coefs) - 1)
LcsDenom2(coefs) ==
  Energy(coefs, 1, Len(coefs) - 1) * Energy(coefs, 2, Len(coefs))

\* floor(Scale * sqrt(n2 / d2)) for d2 > 0, searched in lo..hi
RECURSIVE FixSqrt(_, _, _, _)
FixSqrt(lo, hi, n2, d2) ==
  IF lo >= hi THEN lo
  ELSE LET mid == (lo + hi + 1) \div 2
       IN  IF mid * mid * d2 <= Scale * Scale * n2
           THEN FixSqrt(mid, hi, n2, d2)
           ELSE FixSqrt(lo, mid - 1, n2, d2)

\* np.abs(lcs_num / lcs_denom): numpy gives nan for 0/0 and inf for x/0
\* (slips: 0 in place of nan for a zero denominator; the pair sum started one
\* chunk late)
LcsValueZero(coefs) ==
  LET n2 == CAbs2(LcsNum(coefs, 1))
      d2 == LcsDenom2(coefs)
  IN  IF d2 = 0 THEN Num(0) ELSE Num(FixSqrt(0, 2 * Scale, n2, d2))
LcsValueOffByOne(coefs) ==
  LET n2 == CAbs2(LcsNum(coefs, 2))
      d2 == LcsDenom2(coefs)
  IN  IF d2 = 0 THEN (IF n2 = 0 THEN NaN ELSE Inf)
      ELSE Num(FixSqrt(0, 2 * Scale, n2, d2))
LcsValue(coefs) ==
  LET n2 == CAbs2(LcsNum(coefs, 1))
      d2 == LcsDenom2(coefs)
  IN  IF d2 = 0 THEN (IF n2 = 0 THEN NaN ELSE Inf)
      ELSE Num(FixSqrt(0, 2 * Scale, n2, d2))

\* the whole function; kind "raise" when the reshape raises
LaggedCoherence1Freq(s, f, rate, cyc) ==
  LET n == NSamps(f, rate, cyc)
      ch == NonoverlappingChunks(s, n)
  IN  IF ch.raised THEN [kind |-> "raise", v |-> 0]
      ELSE LcsValue(FftCoefs(ch.chunks, n, FftFreqsIdx(n, rate, f)))

\* the inputs the exact transform covers: no chunk, or a representable window
Computable(s, f, rate, cyc) ==
  \/ Representable(NSamps(f, rate, cyc))
  \/ Len(s) < NSamps(f, rate, cyc)

---------------------------------------------------------------------------
(* lagged_coherence (lc.py 13-69) *)

\* np.arange(start, stop, step) for step > 0
Arange(start, stop, step) ==
  LET len == IF stop > start THEN CeilDiv(stop - start, step) ELSE 0
  IN  [i \in 1..len |-> start + (i - 1) * step]

\* np.zeros(n)
Zeros(n) == [i \in 1..n |-> Num(0)]

\* lc[ind] = value, ind 0-based
\* (a slip: the loop index not used)
StoreAtFirst(lcv, i, value) == [lcv EXCEPT ![1] = value]
StoreAt(lcv, i, value) == [lcv EXCEPT ![i + 1] = value]

\* sum(np.isnan(lc))
CountNaN(lcv) == Cardinality({i \in 1..Len(lcv) : IsNaN(lcv[i])})

\* the number of times the warning of lines 58-63 is printed
\* (a slip: the warning printed inside the loop, once per nan)
NoticesPerFreq(lcv, vb) == IF vb THEN CountNaN(lcv) ELSE 0
Notices(lcv, vb) == IF CountNaN(lcv) > 0 /\ vb THEN 1 ELSE 0

RECURSIVE SumV(_, _)
SumV(lcv, i) == IF i > Len(lcv) THEN 0 ELSE lcv[i].v + SumV(lcv, i + 1)

\* np.mean(lc): nan when any value is nan (or lc is empty)
\* (a slip: np.nanmean)
MeanSkipNaN(lcv) ==
  LET keep == SelectSeq(lcv, LAMBDA x : x.kind = "num")
  IN  IF Len(keep) = 0 THEN NaN ELSE Num(SumV(keep, 1) \div Len(keep))
Mean(lcv) ==
  IF Len(lcv) = 0 \/ CountNaN(lcv) > 0 THEN NaN
  ELSE IF \E i \in 1..Len(lcv) : lcv[i].kind = "inf" THEN Inf
  ELSE Num(SumV(lcv, 1) \div Len(lcv))

NoReturn == [spectrum |-> FALSE, lc |-> Unset, freqs |-> <<>>]

\* the state at the entry of lagged_coherence
SweepInit ==
  /\ pc = "start"
  /\ sig \in SeqsUpTo(Samples, MaxSweepLen)
  /\ fs \in SweepRates
  /\ n_cycles \in SweepCycles
  /\ f_range \in {r \in (1..MaxFreq) \X (1..MaxFreq) : r[1] <= r[2]}
  /\ f_step \in 1..MaxStep
  /\ return_spectrum \in BOOLEAN
  /\ verbose \in BOOLEAN
  /\ \A i \in 0..((f_range[2] - f_range[1]) \div f_step + 1) :
        Computable(sig, f_range[1] + i * f_step, fs, n_cycles)
  /\ freqs = <<>> /\ lc = <<>> /\ ind = 0 /\ notices = 0 /\ ret = NoReturn
  /\ freq = 0 /\ n_samps = 0 /\ chunks = <<>> /\ n_chunks = 0
  /\ fft_freqs_idx = 0 /\ fft_coefs = <<>> /\ lcs = Unset

\* lines 52-53
BuildFreqs ==
  /\ pc = "start"
  /\ freqs' = Arange(f_range[1], f_range[2] + f_step, f_step)
  /\ lc' = Zeros(Len(freqs'))
  /\ ind' = 0
  /\ pc' = "loop"
  /\ UNCHANGED <<argVars, f_range, f_step, return_spectrum, verbose, notices, ret, estVars>>

\* lines 54-55, one iteration
Estimate ==
  /\ pc = "loop"
  /\ ind < Len(freqs)
  /\ LET value == LaggedCoherence1Freq(sig, freqs[ind + 1], fs, n_cycles)
     IN  IF value.kind = "raise"
         THEN pc' = "raised" /\ UNCHANGED <<lc, ind>>
         ELSE /\ lc' = StoreAt(lc, ind, value)
              /\ ind' = ind + 1
              /\ pc' = "loop"
  /\ UNCHANGED <<argVars, f_range, f_step, return_spectrum, verbose, freqs, notices, ret, estVars>>

\* lines 57-63, after the loop
Check ==
  /\ pc = "loop"
  /\ ind = Len(freqs)
  /\ notices' = notices + Notices(lc, verbose)
  /\ pc' = "return"
  /\ UNCHANGED <<argVars, f_range, f_step, return_spectrum, verbose, freqs, lc, ind, ret, estVars>>

\* lines 65-69
Return ==
  /\ pc = "return"
  /\ ret' = IF return_spectrum
            THEN [spectrum |-> TRUE, lc |-> lc, freqs |-> freqs]
            ELSE [spectrum |-> FALSE, lc |-> Mean(lc), freqs |-> <<>>]
  /\ pc' = "done"
  /\ UNCHANGED <<argVars, f_range, f_step, return_spectrum, verbose, freqs, lc, ind, notices, estVars>>

Init == SweepInit
Next == BuildFreqs \/ Estimate \/ Check \/ Return
Spec == Init /\ [][Next]_vars

---------------------------------------------------------------------------
(* _lagged_coherence_1freq, step by step *)

NoSweep ==
  /\ f_range = <<0, 0>> /\ f_step = 0 /\ return_spectrum = FALSE /\ verbose = FALSE
  /\ freqs = <<>> /\ lc = <<>> /\ ind = 0 /\ notices = 0 /\ ret = NoReturn

\* the state at the entry of _lagged_coherence_1freq
EstInit ==
  /\ pc = "window"
  /\ sig \in SeqsUpTo(Samples, MaxLen)
  /\ fs \in Rates
  /\ n_cycles \in Cycles
  /\ freq \in 1..MaxFreq
  /\ NoSweep
  /\ n_samps = 0 /\ chunks = <<>> /\ n_chunks = 0
  /\ fft_freqs_idx = 0 /\ fft_coefs = <<>> /\ lcs = Unset

\* line 76
Window ==
  /\ pc = "window"
  /\ n_samps' = NSamps(freq, fs, n_cycles)
  /\ pc' = "chunk"
  /\ UNCHANGED <<argVars, sweepVars, freq, chunks, n_chunks, fft_freqs_idx, fft_coefs, lcs>>

\* lines 79-80
Chunk ==
  /\ pc = "chunk"
  /\ LET r == NonoverlappingChunks(sig, n_samps)
     IN  IF r.raised
         THEN pc' = "raised" /\ UNCHANGED <<chunks, n_chunks>>
         ELSE /\ chunks' = r.chunks
              /\ n_chunks' = Len(r.chunks)
              /\ pc' = "bin"
  /\ UNCHANGED <<argVars, sweepVars, freq, n_samps, fft_freqs_idx, fft_coefs, lcs>>

\* lines 83-85
Bin ==
  /\ pc = "bin"
  /\ fft_freqs_idx' = FftFreqsIdx(n_samps, fs, freq)
  /\ pc' = "coefs"
  /\ UNCHANGED <<argVars, sweepVars, freq, n_samps, chunks, n_chunks, fft_coefs, lcs>>

\* lines 87-90
Coefs ==
  /\ pc = "coefs"
  /\ n_chunks = 0 \/ Representable(n_samps)
  /\ fft_coefs' = FftCoefs(chunks, n_samps, fft_freqs_idx)
  /\ pc' = "value"
  /\ UNCHANGED <<argVars, sweepVars, freq, n_samps, chunks, n_chunks, fft_freqs_idx, lcs>>

\* lines 92-98
Value ==
  /\ pc = "value"
  /\ lcs' = LcsValue(fft_coefs)
  /\ pc' = "returned"
  /\ UNCHANGED <<argVars, sweepVars, freq, n_samps, chunks, n_chunks, fft_freqs_idx, fft_coefs>>

EstNext == Window \/ Chunk \/ Bin \/ Coefs \/ Value
SpecEst == EstInit /\ [][EstNext]_vars

---------------------------------------------------------------------------
(* lines 92-98 on arbitrary coefficient sequences *)

Gauss == (-CoefMax..CoefMax) \X (-CoefMax..CoefMax)

CoefInit ==
  /\ pc = "value"
  /\ fft_coefs \in SeqsUpTo(Gauss, MaxChunks)
  /\ n_chunks = Len(fft_coefs)
  /\ sig = <<>> /\ fs = 0 /\ n_cycles = <<0, 1>> /\ freq = 0
  /\ NoSweep
  /\ n_samps = 0 /\ chunks = <<>> /\ fft_freqs_idx = 0 /\ lcs = Unset

CoefNext == Value
SpecCoef == CoefInit /\ [][CoefNext]_vars

---------------------------------------------------------------------------
(* Properties *)

AfterChunk == pc \in {"bin", "coefs", "value", "returned"}

RECURSIVE Concat(_, _)
Concat(chs, k) == IF k > Len(chs) THEN <<>> ELSE chs[k] \o Concat(chs, k + 1)

\* C1: _nonoverlapping_chunks returns (without raising) exactly floor(L / n_samples)
\* chunks of n_samples samples each, chunk k (0-based) being
\* sig[k*n_samples .. (k+1)*n_samples - 1]; their concatenation is the first
\* n_chunks*n_samples samples and the shorter tail is dropped.
C1_ChunksPartitionPrefix ==
  /\ pc # "raised"
  /\ AfterChunk =>
       /\ n_chunks = Len(chunks)
       /\ n_chunks * n_samps <= Len(sig)
       /\ Len(sig) < (n_chunks + 1) * n_samps
       /\ \A k \in 1..n_chunks :
            /\ Len(chunks[k]) = n_samps
            /\ \A j \in 1..n_samps : chunks[k][j] = sig[(k - 1) * n_samps + j]
       /\ Concat(chunks, 1) = SubSeq(sig, 1, n_chunks * n_samps)

C1_Witness ==
  /\ pc = "bin" /\ n_samps = 3 /\ n_chunks = 2 /\ Len(sig) = 8
  /\ chunks[1] # chunks[2]

\* C2: the frequency sequence is low, low + f_step, ... and its last value is the
\* largest one <= high: no generated frequency exceeds high.
C2_FreqsWithinRange ==
  pc # "start" =>
    /\ Len(freqs) >= 1
    /\ \A i \in 1..Len(freqs) :
         freqs[i] = f_range[1] + (i - 1) * f_step /\ freqs[i] <= f_range[2]
    /\ freqs[Len(freqs)] + f_step > f_range[2]

\* C3: with n_chunks >= 2 and a non-zero denominator the returned value lies in
\* [0, 1]: |lcs_num|^2 never exceeds the product of the two energy sums.
C3_ValueInUnitInterval ==
  (pc = "returned" /\ n_chunks >= 2 /\ LcsDenom2(fft_coefs) # 0) =>
    /\ lcs.kind = "num"
    /\ 0 <= lcs.v /\ lcs.v <= Scale
    /\ CAbs2(LcsNum(fft_coefs, 1)) <= LcsDenom2(fft_coefs)

C3_Witness ==
  /\ pc = "returned" /\ n_chunks = 3
  /\ fft_coefs[2][2] # 0
  /\ lcs.kind = "num" /\ 0 < lcs.v /\ lcs.v < Scale

\* C4: _lagged_coherence_1freq never raises, and returns NaN whenever there are
\* fewer than two chunks or every retained coefficient is zero.
C4_NaNSentinelNoRaise ==
  /\ pc # "raised"
  /\ (pc = "returned" /\ (n_chunks < 2 \/ \A c \in 1..n_chunks : fft_coefs[c] = CZero))
       => IsNaN(lcs)

C4_Witness ==
  /\ pc = "returned" /\ IsNaN(lcs)
  /\ n_chunks >= 2 /\ \A c \in 1..n_chunks : fft_coefs[c] = CZero
  /\ \E m \in 1..Len(sig) : sig[m] # 0

\* C5: a call prints the warning exactly once when verbose is set and some
\* per-frequency value is NaN, and never otherwise, however many values are NaN.
C5_OneNoticePerCall ==
  /\ notices \in {0, 1}
  /\ pc \in {"start", "loop"} => notices = 0
  /\ pc \in {"return", "done"} =>
       notices = IF verbose /\ (\E i \in 1..Len(lc) : IsNaN(lc[i])) THEN 1 ELSE 0

C5_Witness ==
  /\ pc = "done" /\ verbose /\ notices = 1
  /\ Cardinality({i \in 1..Len(lc) : IsNaN(lc[i])}) >= 2

\* C6: with return_spectrum the call returns lc and freqs of equal length, freqs
\* the ascending progression that was generated, and lc[i] the estimate of
\* freqs[i], the estimator having run once per frequency.
C6_SpectrumAligned ==
  (pc = "done" /\ return_spectrum) =>
    /\ ret.spectrum
    /\ Len(ret.lc) = Len(ret.freqs)
    /\ ret.freqs = freqs
    /\ ind = Len(freqs)
    /\ \A i \in 1..Len(ret.freqs) :
         /\ ret.freqs[i] = f_range[1] + (i - 1) * f_step
         /\ i > 1 => ret.freqs[i - 1] < ret.freqs[i]
         /\ ret.lc[i] = LaggedCoherence1Freq(sig, ret.freqs[i], fs, n_cycles)

C6_Witness ==
  /\ pc = "done" /\ return_spectrum /\ Len(ret.freqs) >= 2
  /\ IsNaN(ret.lc[1])
  /\ ret.lc[2].kind = "num" /\ 0 < ret.lc[2].v /\ ret.lc[2].v < Scale

\* the values a call with return_spectrum = True returns for the same arguments
SpectrumOfCall ==
  [i \in 1..Len(freqs) |-> LaggedCoherence1Freq(sig, freqs[i], fs, n_cycles)]

\* C7: without return_spectrum the call returns the arithmetic mean of the values
\* the same call returns with return_spectrum, and NaN when one of them is NaN.
C7_MeanOfSpectrum ==
  (pc = "done" /\ ~return_spectrum) =>
    /\ ~ret.spectrum
    /\ (\E i \in 1..Len(freqs) : IsNaN(SpectrumOfCall[i])) => IsNaN(ret.lc)
    /\ (\A i \in 1..Len(freqs) : SpectrumOfCall[i].kind = "num") =>
         /\ ret.lc.kind = "num"
         /\ ret.lc.v * Len(freqs) <= SumV(SpectrumOfCall, 1)
         /\ SumV(SpectrumOfCall, 1) < (ret.lc.v + 1) * Len(freqs)

C7_Witness ==
  /\ pc = "done" /\ ~return_spectrum /\ Len(freqs) >= 2
  /\ ret.lc.kind = "num" /\ 0 < ret.lc.v /\ ret.lc.v < Scale

\* C8: the selected bin is an index of the FFT grid of n_samps samples at rate fs
\* (0, 1, ..., then the negative frequencies, times fs / n_samps) nearest to freq,
\* the smallest such index on a tie, and every chunk's coefficient is taken there.
C8_NearestBinFirstOnTie ==
  LET bin(j) == IF 2 * j <= n_samps - 1 THEN j ELSE j - n_samps
      dist(j) == Abs(bin(j) * fs - freq * n_samps)
  IN  /\ pc \in {"coefs", "value", "returned"} =>
           /\ fft_freqs_idx \in 0..(n_samps - 1)
           /\ \A j \in 0..(n_samps - 1) :
                /\ dist(fft_freqs_idx) <= dist(j)
                /\ dist(j) = dist(fft_freqs_idx) => fft_freqs_idx <= j
      /\ pc \in {"value", "returned"} =>
           \A c \in 1..n_chunks :
             fft_coefs[c] = Fft(Taper(chunks[c], n_samps), n_samps)[fft_freqs_idx]

C8_Witness ==
  /\ pc = "value" /\ n_samps = 4 /\ n_chunks = 2
  /\ fft_freqs_idx = 0
  /\ Abs(fs - freq * n_samps) = freq * n_samps
  /\ fft_coefs[1] # fft_coefs[2]

\* C9: n_samps = ceil(n_cycles * fs / freq) >= 1, and a higher frequency never
\* gets a longer window, nor fewer chunks, than a lower one.
C9_WindowCeilMonotone ==
  pc # "window" =>
    /\ n_samps >= 1
    /\ (n_samps - 1) * n_cycles[2] * freq < n_cycles[1] * fs
    /\ n_cycles[1] * fs <= n_samps * n_cycles[2] * freq
    /\ \A f2 \in (freq + 1)..(MaxFreq + 2) :
         /\ NSamps(f2, fs, n_cycles) <= n_samps
         /\ Len(sig) \div NSamps(f2, fs, n_cycles) >= Len(sig) \div n_samps
    /\ \A f1 \in 1..(freq - 1) : NSamps(f1, fs, n_cycles) >= n_samps

C9_Witness ==
  /\ pc = "bin" /\ freq = 2 /\ n_samps = 3 /\ n_chunks = 2
  /\ NSamps(3, fs, n_cycles) = 2 /\ NSamps(1, fs, n_cycles) = 6

\* C10: with exactly two chunks and both coefficients non-zero the result is
\* exactly 1; a value below 1 needs at least three chunks.
C10_TwoChunksGiveOne ==
  pc = "returned" =>
    /\ (n_chunks = 2 /\ fft_coefs[1] # CZero /\ fft_coefs[2] # CZero) => lcs = Num(Scale)
    /\ (lcs.kind = "num" /\ lcs.v < Scale) => n_chunks >= 3

C10_Witness ==
  /\ pc = "returned" /\ n_chunks = 2
  /\ fft_coefs[1] = <<1, 1>> /\ fft_coefs[2] = <<-1, 0>>
  /\ lcs = Num(Scale)

====
